---- MODULE Spec2Model ----
(***************************************************************************)
(* Model of the resource checker: get_resources (locator, version          *)
(* extractor, upstream resolver) followed by generate_report (path         *)
(* counts, hierarchy tree, uncovered PATH directories), for src/main.py    *)
(* and for the stand-alone script src/resource_checker.py.                 *)
(*                                                                         *)
(* Strings the program takes apart (paths, PATH entries) are sequences of  *)
(* one-character strings, so split, join, dirname and set.update(str) are  *)
(* computed character by character.  URLs are sequences of tokens cut so   *)
(* that every needle of a substring test is one token.  Text the program   *)
(* only produces is a flat sequence of string pieces.                      *)
(***************************************************************************)
EXTENDS Integers, Sequences, FiniteSets, TLC

VARIABLES
    script,               \* which program runs: "main" or "resource_checker"
    platform,             \* SYSTEM_PLATFORM
    search_standard_dirs, \* argument of get_resources
    fs,                   \* what the run has seen of the file system:
                          \* path -> is_executable(path)
    pc,                   \* position of the run
    ri,                   \* index of the resource the loop is at
    pi,                   \* index of the path the inner loop is at
    lv,                   \* local lv of get_resources
    paths,                \* local paths of get_resources
    extra_paths,          \* local extra_paths of get_resources
    resource_results,     \* ordered dict resource -> result
    covered_dirs,         \* set covered_dirs
    raised,               \* exception that escaped, or "none"
    invoked,              \* paths whose version command was run (history)
    discovered,           \* per resource, what locator and glob returned (history)
    locate_status,        \* exit of the locate command find_executable_paths
                          \* is returning from ("none" outside that call)
    lines_out,            \* lines printed so far by locate commands and globs
    path_dirs,            \* PATH split at os.pathsep, read by generate_report
    net_in,               \* the network outcome of a resolver call made on its own
    report                \* the list generate_report returns

vars == <<script, platform, search_standard_dirs, fs, pc, ri, pi,
          lv, paths, extra_paths, resource_results, covered_dirs, raised, invoked,
          discovered, locate_status, lines_out, path_dirs, net_in, report>>

-----------------------------------------------------------------------------
(* Bounds *)

NumResources == 2   \* configured resources: the first entries of RESOURCES
MaxLines == 2       \* lines printed by locate commands and globs in one run
MaxPathDirs == 1    \* entries of PATH

-----------------------------------------------------------------------------
(* Values *)

None == [type |-> "NoneType"]
Str(s) == [type |-> "str", val |-> s]
IsStr(v) == v.type = "str"

Range(s) == {s[i] : i \in 1..Len(s)}

BSLASH == "\\"
SLASH == "/"

\* Code point order of the characters used (sorted() compares code points).
Ord(c) == CASE c = "/" -> 47 [] c = "\\" -> 92 [] c = "a" -> 97 [] c = "b" -> 98
            [] OTHER -> 0

\* s < t for Python str
RECURSIVE StrLess(_, _)
StrLess(s, t) ==
    IF t = <<>> THEN FALSE
    ELSE IF s = <<>> THEN TRUE
    ELSE IF Head(s) = Head(t) THEN StrLess(Tail(s), Tail(t))
    ELSE Ord(Head(s)) < Ord(Head(t))

\* str.split(sep) for a one-character separator (seps is the set of separators)
RECURSIVE SplitAcc(_, _, _)
SplitAcc(s, seps, cur) ==
    IF s = <<>> THEN <<cur>>
    ELSE IF Head(s) \in seps THEN <<cur>> \o SplitAcc(Tail(s), seps, <<>>)
    ELSE SplitAcc(Tail(s), seps, Append(cur, Head(s)))

Split(s, sep) == SplitAcc(s, {sep}, <<>>)

\* sep.join(parts)
RECURSIVE Join(_, _)
Join(parts, sep) ==
    IF parts = <<>> THEN <<>>
    ELSE IF Len(parts) = 1 THEN parts[1]
    ELSE parts[1] \o <<sep>> \o Join(Tail(parts), sep)

\* index after the last character of s that is in seps (0 if none): rfind + 1
RECURSIVE LastSep(_, _)
LastSep(s, seps) ==
    IF s = <<>> THEN 0
    ELSE IF s[Len(s)] \in seps THEN Len(s)
    ELSE LastSep(SubSeq(s, 1, Len(s) - 1), seps)

\* str.rstrip(seps)
RECURSIVE RStrip(_, _)
RStrip(s, seps) ==
    IF s # <<>> /\ s[Len(s)] \in seps THEN RStrip(SubSeq(s, 1, Len(s) - 1), seps)
    ELSE s

\* os.path.dirname: posixpath on POSIX, ntpath on Windows (no drive letters here)
dirname(plat, p) ==
    LET seps == IF plat = "Windows" THEN {BSLASH, SLASH} ELSE {SLASH}
        head == SubSeq(p, 1, LastSep(p, seps))
    IN  IF head # <<>> /\ RStrip(head, seps) # <<>> THEN RStrip(head, seps) ELSE head

-----------------------------------------------------------------------------
(* Configuration *)

\* RESOURCES: name, version argument, URL
RESOURCES == <<
    [name |-> "node",   version_args |-> "--version",
     url |-> <<"https://", "nodejs", ".org/en/">>],
    [name |-> "npm",    version_args |-> "--version",
     url |-> <<"https://www.", "npmjs", ".com/">>],
    [name |-> "Java",   version_args |-> "-version",
     url |-> <<"https://www.oracle.com/java/technologies/javase-jdk11-downloads.html">>],
    [name |-> "Python", version_args |-> "--version",
     url |-> <<"https://www.", "python", ".org/downloads/">>],
    [name |-> "Git",    version_args |-> "--version",
     url |-> <<"https://git-scm.com/">>],
    [name |-> "Hi",     version_args |-> "--version",
     url |-> <<"https://git-scm.com/">>] >>

\* the rows of RESOURCES that are switched on
Configured == SubSeq(RESOURCES, 1, IF NumResources < Len(RESOURCES) THEN NumResources
                                   ELSE Len(RESOURCES))

\* Lines a locate command or a glob can print on the modelled host.
HostPaths == { <<"a", "/", "a">>, <<"a", "/", "a", "\\", "b">> }

\* Entries PATH can hold on the modelled host (the empty entry included).
HostDirs == { <<>>, <<"a", "/", "a">> }

-----------------------------------------------------------------------------
(* Ordered dict: a sequence of [key, val] in insertion order *)

Keys(d) == [i \in 1..Len(d) |-> d[i].key]
HasKey(d, k) == \E i \in 1..Len(d) : d[i].key = k
Get(d, k) == d[CHOOSE i \in 1..Len(d) : d[i].key = k].val

\* d[k] = v
DictSet(d, k, v) ==
    IF HasKey(d, k)
    THEN [i \in 1..Len(d) |-> IF d[i].key = k THEN [key |-> k, val |-> v] ELSE d[i]]
    ELSE Append(d, [key |-> k, val |-> v])

-----------------------------------------------------------------------------
(* Upstream version resolver *)

\* What the network gives one call of get_latest_version.
NetOutcomes ==
    [ primary   : {"exception", "non200", "200"},    \* requests.get(url)
      secondary : {"exception", "response"},         \* the publisher's second GET
      body      : {"empty_list", "not_json", "list", "object"},
      fields    : SUBSET {"version", "date"},        \* keys of the entry read
      marker    : BOOLEAN,                           \* release-number span present
      wrapped   : BOOLEAN ]    \* the installed requests raises its own JSONDecodeError

\* The outcomes a whole run draws from: the upstream is reached or the network
\* fails, the entries read are complete and requests is a current one.
RunNetOutcomes ==
    {net \in NetOutcomes :
        /\ net.primary # "non200"
        /\ net.fields = {"version", "date"}
        /\ net.marker
        /\ net.wrapped}

Contains(url, needle) == \E i \in 1..Len(url) : url[i] = needle

Returned(v) == [exc |-> "none", value |-> v]
Raises(e) == [exc |-> e, value |-> None]

ErrorFetching == Returned(Str(<<"Error fetching data: ", "e">>))

\* response.json(): the decoded body, or the exception it raises
JsonError(wrapped) ==
    IF wrapped THEN ErrorFetching        \* requests.JSONDecodeError is a RequestException
    ELSE Raises("JSONDecodeError")       \* a plain ValueError passes the except clause

\* dict.get(field, 'Unknown version')
Field(net, f) ==
    IF f \in net.fields THEN (IF f = "version" THEN "v20.0.0" ELSE "2024-01-01")
    ELSE "Unknown version"

NodeIndex(net) ==
    IF net.secondary = "exception" THEN ErrorFetching
    ELSE CASE net.body = "not_json"   -> JsonError(net.wrapped)
           [] net.body = "empty_list" -> Raises("IndexError")      \* response.json()[0]
           [] net.body = "object"     -> Raises("KeyError")        \* {...}[0]
           [] net.body = "list"       ->
                Returned(Str(<<Field(net, "version"), " (", Field(net, "date"), ")">>))

PythonHome(net) ==
    \* the slice between the marker and the next </span>; with no marker, find
    \* returns -1 and the slice is some other piece of the page
    IF net.marker THEN Returned(Str(<<"release-number">>))
    ELSE Returned(Str(<<"page slice">>))

NpmLatest(net) ==
    IF net.secondary = "exception" THEN ErrorFetching
    ELSE CASE net.body = "not_json"   -> JsonError(net.wrapped)
           [] net.body = "empty_list" -> Raises("AttributeError")  \* [].get
           [] net.body = "list"       -> Raises("AttributeError")
           [] net.body = "object"     -> Returned(Str(<<Field(net, "version")>>))

get_latest_version(url, net) ==
    IF net.primary = "exception" THEN ErrorFetching
    ELSE IF net.primary = "200"
    THEN IF Contains(url, "nodejs") THEN NodeIndex(net)
         ELSE IF Contains(url, "python") THEN PythonHome(net)
         ELSE IF Contains(url, "npmjs") THEN NpmLatest(net)
         ELSE Returned(Str(<<"Latest version info not found">>))
    ELSE Returned(Str(<<"Failed to fetch version from ">> \o url))

-----------------------------------------------------------------------------
(* Locator and version extractor *)

\* sequences over S of length 0..n
SeqsUpTo(S, n) == UNION {[1..k -> S] : k \in 0..n}

\* run_command without the except clause's []: the output of a failed command
\* is passed on
run_command_keeps_output(outcome) == outcome.lines

\* run_command: the lines printed, or [] when the command exits non-zero
run_command(outcome) ==
    IF outcome.status = "CalledProcessError" THEN <<>> ELSE outcome.lines

find_executable_paths(outcome) == run_command(outcome)

\* os.access(path, os.X_OK): what is_executable tests on POSIX; on Windows
\* every existing file passes
x_ok(plat, files, path) == IF plat = "Windows" THEN TRUE ELSE files[path]

\* search_in_standard_dirs keeps the glob matches that pass os.access(X_OK)
search_in_standard_dirs(plat, files, matches) ==
    SelectSeq(matches, LAMBDA p : x_ok(plat, files, p))

\* The file system seen so far, with the paths of S looked at as well.
Looked(files, S) ==
    {g \in [DOMAIN files \cup S -> BOOLEAN] : \A p \in DOMAIN files : g[p] = files[p]}

\* get_version: the first output line, or the error as a string
get_version(outcome) ==
    IF outcome = "ok" THEN Str(<<"v1">>) ELSE Str(<<"Error: ", "e">>)

\* is_executable, on the file system as seen
is_executable(files, path) == files[path]

\* get_path_details asking for the version whatever is_executable says
get_path_details_eager(path, files, outcome) ==
    [Executable |-> is_executable(files, path),
     Version |-> get_version(outcome),
     ran |-> TRUE]

\* get_path_details: (executable, version, version command run)
get_path_details(path, files, outcome) ==
    LET executable == is_executable(files, path)
    IN  [Executable |-> executable,
         Version |-> IF executable THEN get_version(outcome) ELSE None,
         ran |-> executable]

-----------------------------------------------------------------------------
(* Report: path counts, hierarchy tree, lines *)

IndentStep == 2

\* path_counts[k] = path_counts.get(k, 0) + 1
Incr(path_counts, k) ==
    IF k \in DOMAIN path_counts THEN [path_counts EXCEPT ![k] = @ + 1]
    ELSE path_counts @@ (k :> 1)

\* the loop over i in range(1, len(parts) + 1)
RECURSIVE CountPrefixes(_, _, _)
CountPrefixes(path_counts, parts, i) ==
    IF i > Len(parts) THEN path_counts
    ELSE CountPrefixes(Incr(path_counts, Join(SubSeq(parts, 1, i), BSLASH)), parts, i + 1)

\* the loop over the keys of one resource's 'paths'
RECURSIVE CountPaths(_, _, _)
CountPaths(path_counts, pathdict, j) ==
    IF j > Len(pathdict) THEN path_counts
    ELSE CountPaths(CountPrefixes(path_counts, Split(pathdict[j].key, BSLASH), 1),
                    pathdict, j + 1)

RECURSIVE CountResources(_, _, _)
CountResources(path_counts, results, r) ==
    IF r > Len(results) THEN path_counts
    ELSE CountResources(CountPaths(path_counts, results[r].val.paths, 1), results, r + 1)

build_path_counts(results) == CountResources(<<>>, results, 1)

\* path_counts.get(k, 0)
CountOf(path_counts, k) == IF k \in DOMAIN path_counts THEN path_counts[k] ELSE 0

\* for part in parts: current = current.setdefault(part, {})
RECURSIVE Insert(_, _)
Insert(tree, parts) ==
    IF parts = <<>> THEN tree
    ELSE IF HasKey(tree, Head(parts))
    THEN [i \in 1..Len(tree) |->
            IF tree[i].key = Head(parts)
            THEN [key |-> tree[i].key, val |-> Insert(tree[i].val, Tail(parts))]
            ELSE tree[i]]
    ELSE Append(tree, [key |-> Head(parts), val |-> Insert(<<>>, Tail(parts))])

\* sorted(current.items()): keys are unique, so the order is the keys' order
RECURSIVE SortedItems(_)
SortedItems(d) ==
    IF d = <<>> THEN <<>>
    ELSE LET m == CHOOSE i \in 1..Len(d) :
                    \A j \in 1..Len(d) : j = i \/ StrLess(d[i].key, d[j].key)
         IN  <<d[m]>> \o SortedItems([i \in 1..(Len(d) - 1) |->
                                        IF i < m THEN d[i] ELSE d[i + 1]])

\* the key print_hierarchy looks up for a node: its own key joined with the
\* keys of its children
LookupKey(key, subdir) == Join(<<key>> \o Keys(subdir), BSLASH)

HierLine(indent, key, count) ==
    [kind |-> "hierarchy", indent |-> indent, key |-> key, count |-> count]

RECURSIVE print_hierarchy(_, _, _)
RECURSIVE PrintItems(_, _, _)
PrintItems(items, path_counts, indent) ==
    IF items = <<>> THEN <<>>
    ELSE <<HierLine(indent, items[1].key,
                    CountOf(path_counts, LookupKey(items[1].key, items[1].val)))>>
         \o print_hierarchy(items[1].val, path_counts, indent + IndentStep)
         \o PrintItems(Tail(items), path_counts, indent)

print_hierarchy(current, path_counts, indent) ==
    PrintItems(SortedItems(current), path_counts, indent)

\* list_uncovered_path_dirs
list_uncovered_path_dirs(covered, dirs) ==
    SelectSeq(dirs, LAMBDA d : d # <<>> /\ d \notin covered)

PathBlock(path, details) ==
    << [kind |-> "Path", path |-> path],
       [kind |-> "Executable", value |-> details.Executable],
       [kind |-> "Version",
        value |-> IF IsStr(details.Version) THEN details.Version.val ELSE <<"None">>],
       [kind |-> "In-Path Variable", value |-> details.InPath] >>

Header(resource, details) ==
    << [kind |-> "resource", resource |-> resource,
        text |-> IF Len(details.paths) = 0 THEN "No paths found" ELSE ""],
       [kind |-> "Latest Available Version",
        latest_version |-> details.online_details.latest_version.val,
        url |-> details.online_details.url] >>

Blank == [kind |-> ""]

\* the loop over resource_details['paths'].items() in main.py: the Path lines
RECURSIVE PathLines(_, _)
PathLines(pathdict, j) ==
    IF j > Len(pathdict) THEN <<>>
    ELSE (IF pathdict[j].val.Executable = TRUE
          THEN PathBlock(pathdict[j].key, pathdict[j].val) ELSE <<>>)
         \o PathLines(pathdict, j + 1)

\* the hierarchy filled from every path, whatever its InPath flag
RECURSIVE BuildHierarchyAll(_, _, _)
BuildHierarchyAll(hierarchy, pathdict, j) ==
    IF j > Len(pathdict) THEN hierarchy
    ELSE BuildHierarchyAll(Insert(hierarchy, Split(pathdict[j].key, BSLASH)),
                           pathdict, j + 1)

\* the same loop: the hierarchy dict it fills
RECURSIVE BuildHierarchy(_, _, _)
BuildHierarchy(hierarchy, pathdict, j) ==
    IF j > Len(pathdict) THEN hierarchy
    ELSE BuildHierarchy(IF pathdict[j].val.InPath = FALSE
                        THEN Insert(hierarchy, Split(pathdict[j].key, BSLASH))
                        ELSE hierarchy,
                        pathdict, j + 1)

HierarchyOf(details) == BuildHierarchy(<<>>, details.paths, 1)

ResourceSection(resource, details, path_counts) ==
    Header(resource, details)
    \o PathLines(details.paths, 1)
    \o print_hierarchy(HierarchyOf(details), path_counts, IndentStep)
    \o <<Blank>>

RECURSIVE ResourceSections(_, _, _)
ResourceSections(results, path_counts, r) ==
    IF r > Len(results) THEN <<>>
    ELSE ResourceSection(results[r].key, results[r].val, path_counts)
         \o ResourceSections(results, path_counts, r + 1)

UncoveredSection(uncovered) ==
    (IF uncovered # <<>>
     THEN <<[kind |-> "Uncovered PATH Directories:"]>>
          \o [i \in 1..Len(uncovered) |-> [kind |-> "uncovered", dir |-> uncovered[i]]]
     ELSE <<>>)
    \o <<Blank>>

\* log_environment_variables and the lines made of it
EnvSection(plat, dirs) ==
    << [kind |-> "Environment Variables:"],
       [kind |-> "env", var |-> "PATH",
        value |-> Join(dirs, IF plat = "Windows" THEN ";" ELSE ":")],
       [kind |-> "env", var |-> "JAVA_HOME", value |-> <<"Not Set">>],
       [kind |-> "env", var |-> "PYTHON_HOME", value |-> <<"Not Set">>] >>

\* generate_report of main.py
generate_report(results, covered, plat, dirs) ==
    ResourceSections(results, build_path_counts(results), 1)
    \o UncoveredSection(list_uncovered_path_dirs(covered, dirs))
    \o EnvSection(plat, dirs)

\* generate_report of resource_checker.py: every path gets its block, no hierarchy
RECURSIVE PathLinesRC(_, _)
PathLinesRC(pathdict, j) ==
    IF j > Len(pathdict) THEN <<>>
    ELSE PathBlock(pathdict[j].key, pathdict[j].val) \o PathLinesRC(pathdict, j + 1)

RECURSIVE ResourceSectionsRC(_, _)
ResourceSectionsRC(results, r) ==
    IF r > Len(results) THEN <<>>
    ELSE Header(results[r].key, results[r].val)
         \o PathLinesRC(results[r].val.paths, 1)
         \o <<Blank>>
         \o ResourceSectionsRC(results, r + 1)

generate_report_rc(results, covered, plat, dirs) ==
    ResourceSectionsRC(results, 1)
    \o UncoveredSection(list_uncovered_path_dirs(covered, dirs))
    \o EnvSection(plat, dirs)

-----------------------------------------------------------------------------
(* The run: get_resources, then generate_report *)

Init ==
    /\ script \in {"main", "resource_checker"}
    /\ platform \in {"Windows", "Linux"}
    /\ search_standard_dirs \in (IF script = "main" THEN BOOLEAN ELSE {FALSE})
    /\ fs = <<>>
    /\ pc = "resolve"
    /\ ri = 1
    /\ pi = 1
    /\ lv = None
    /\ paths = <<>>
    /\ extra_paths = <<>>
    /\ resource_results = <<>>
    /\ covered_dirs = {}
    /\ raised = "none"
    /\ invoked = {}
    /\ discovered = <<>>
    /\ locate_status = "none"
    /\ lines_out = 0
    /\ path_dirs = <<>>
    /\ net_in = <<>>
    /\ report = <<>>

\* where the loops of get_resources go once path number i of the phase is done
AfterPath(phase, i, ps, eps, r) ==
    IF phase = "paths" /\ i < Len(ps) THEN [pc |-> "paths", pi |-> i + 1, ri |-> r]
    ELSE IF phase = "paths" /\ eps # <<>> THEN [pc |-> "extra", pi |-> 1, ri |-> r]
    ELSE IF phase = "extra" /\ i < Len(eps) THEN [pc |-> "extra", pi |-> i + 1, ri |-> r]
    ELSE IF r < Len(Configured) THEN [pc |-> "resolve", pi |-> 1, ri |-> r + 1]
    ELSE [pc |-> "returned", pi |-> 1, ri |-> r + 1]

\* lv = get_latest_version(url)
ResolveLatest ==
    /\ pc = "resolve"
    /\ \E net \in RunNetOutcomes :
         LET res == get_latest_version(Configured[ri].url, net)
         IN  IF res.exc = "none"
             THEN /\ lv' = res.value
                  /\ pc' = "locate"
                  /\ raised' = raised
             ELSE /\ lv' = lv
                  /\ pc' = "raised"
                  /\ raised' = res.exc
    /\ UNCHANGED <<script, platform, search_standard_dirs, fs, ri, pi, paths,
                   extra_paths, resource_results, covered_dirs, invoked,
                   discovered, lines_out, path_dirs, net_in, report,
                   locate_status>>

\* paths = find_executable_paths(resource)
FindExecutablePaths ==
    /\ pc = "locate"
    /\ \E status \in {"ok", "CalledProcessError"} :
       \E lines \in SeqsUpTo(HostPaths, MaxLines - lines_out) :
         /\ paths' = find_executable_paths([status |-> status, lines |-> lines])
         /\ locate_status' = status
    /\ lines_out' = lines_out + Len(paths')
    /\ pc' = "glob"
    /\ UNCHANGED <<script, platform, search_standard_dirs, fs, ri, pi, lv,
                   extra_paths, resource_results, covered_dirs, raised, invoked,
                   discovered, path_dirs, net_in, report>>

\* extra_paths = search_in_standard_dirs(resource) if asked for, and the new
\* entry resource_results[resource]
SearchStandardDirs ==
    /\ pc = "glob"
    /\ \E matches \in SeqsUpTo(HostPaths, MaxLines - lines_out) :
       \E files \in Looked(fs, IF platform = "Windows" THEN {} ELSE Range(matches)) :
         /\ ~search_standard_dirs => matches = <<>>
         /\ fs' = files
         /\ extra_paths' = search_in_standard_dirs(platform, files, matches)
         /\ lines_out' = lines_out + Len(matches)
    /\ resource_results' =
         DictSet(resource_results, Configured[ri].name,
                 [online_details |-> [latest_version |-> lv, url |-> Configured[ri].url],
                  paths |-> <<>>])
    /\ discovered' = Append(discovered, [paths |-> paths, extra_paths |-> extra_paths'])
    /\ locate_status' = "none"
    /\ LET next == IF paths # <<>> THEN [pc |-> "paths", pi |-> 1, ri |-> ri]
                   ELSE AfterPath("paths", 0, paths, extra_paths', ri)
       IN  pc' = next.pc /\ pi' = next.pi /\ ri' = next.ri
    /\ UNCHANGED <<script, platform, search_standard_dirs, lv, paths,
                   covered_dirs, raised, invoked, path_dirs, net_in, report>>

\* resource_results[resource]['paths'][path] = {...}
SetPath(results, resource, path, details) ==
    LET entry == Get(results, resource)
    IN  DictSet(results, resource,
                [entry EXCEPT !.paths = DictSet(entry.paths, path, details)])

\* one turn of the loop over paths
InspectPath ==
    /\ pc = "paths"
    /\ \E files \in Looked(fs, {paths[pi]}) :
       \E outcome \in {"ok", "error"} :
         LET d == get_path_details(paths[pi], files, outcome)
         IN  /\ fs' = files
             /\ d.ran = FALSE => outcome = "ok"
             /\ invoked' = IF d.ran THEN invoked \cup {paths[pi]} ELSE invoked
             /\ resource_results' =
                  SetPath(resource_results, Configured[ri].name, paths[pi],
                          [Executable |-> d.Executable, Version |-> d.Version,
                           InPath |-> TRUE])
    /\ LET next == AfterPath("paths", pi, paths, extra_paths, ri)
       IN  pc' = next.pc /\ pi' = next.pi /\ ri' = next.ri
    /\ UNCHANGED <<script, platform, search_standard_dirs, lv, paths,
                   extra_paths, covered_dirs, raised, discovered, lines_out,
                   path_dirs, net_in, report, locate_status>>

\* one turn of the loop over extra_paths
InspectExtraPath ==
    /\ pc = "extra"
    /\ \E files \in Looked(fs, {extra_paths[pi]}) :
       \E outcome \in {"ok", "error"} :
         LET d == get_path_details(extra_paths[pi], files, outcome)
         IN  /\ fs' = files
             /\ d.ran = FALSE => outcome = "ok"
             /\ invoked' = IF d.ran THEN invoked \cup {extra_paths[pi]} ELSE invoked
             /\ resource_results' =
                  SetPath(resource_results, Configured[ri].name, extra_paths[pi],
                          [Executable |-> d.Executable, Version |-> d.Version,
                           InPath |-> FALSE])
    \* covered_dirs.update(os.path.dirname(path)): update() iterates its argument,
    \* and iterating a str gives its characters
    /\ covered_dirs' = covered_dirs \cup {<<c>> : c \in Range(dirname(platform, extra_paths[pi]))}
    /\ LET next == AfterPath("extra", pi, paths, extra_paths, ri)
       IN  pc' = next.pc /\ pi' = next.pi /\ ri' = next.ri
    /\ UNCHANGED <<script, platform, search_standard_dirs, lv, paths,
                   extra_paths, raised, discovered, lines_out, path_dirs,
                   net_in, report, locate_status>>

\* PATH as generate_report finds it: at least one entry ("".split(sep) is [""])
PathEnvs == UNION {[1..k -> HostDirs] : k \in 1..MaxPathDirs}

\* report = generate_report(resource_results, covered_dirs) in main.py
GenerateReport ==
    /\ pc = "returned"
    /\ script = "main"
    /\ \E dirs \in PathEnvs :
         /\ path_dirs' = dirs
         /\ report' = generate_report(resource_results, covered_dirs, platform, dirs)
    /\ pc' = "done"
    /\ UNCHANGED <<script, platform, search_standard_dirs, fs, ri, pi, lv,
                   paths, extra_paths, resource_results, covered_dirs, raised,
                   invoked, discovered, lines_out, net_in, locate_status>>

\* the same in resource_checker.py
GenerateReportRC ==
    /\ pc = "returned"
    /\ script = "resource_checker"
    /\ \E dirs \in PathEnvs :
         /\ path_dirs' = dirs
         /\ report' = generate_report_rc(resource_results, covered_dirs, platform, dirs)
    /\ pc' = "done"
    /\ UNCHANGED <<script, platform, search_standard_dirs, fs, ri, pi, lv,
                   paths, extra_paths, resource_results, covered_dirs, raised,
                   invoked, discovered, lines_out, net_in, locate_status>>

Next ==
    \/ ResolveLatest
    \/ FindExecutablePaths
    \/ SearchStandardDirs
    \/ InspectPath
    \/ InspectExtraPath
    \/ GenerateReport
    \/ GenerateReportRC

Spec == Init /\ [][Next]_vars

-----------------------------------------------------------------------------
(* The resolver on its own: one call of get_latest_version for a row of     *)
(* RESOURCES and a network outcome                                         *)

InitResolver ==
    /\ script = "main"
    /\ platform = "Linux"
    /\ search_standard_dirs = FALSE
    /\ fs = <<>>
    /\ pc = "call"
    /\ ri \in 1..Len(RESOURCES)
    /\ pi = 1
    /\ lv = None
    /\ paths = <<>>
    /\ extra_paths = <<>>
    /\ resource_results = <<>>
    /\ covered_dirs = {}
    /\ raised = "none"
    /\ invoked = {}
    /\ discovered = <<>>
    /\ locate_status = "none"
    /\ lines_out = 0
    /\ path_dirs = <<>>
    /\ net_in \in NetOutcomes
    /\ report = <<>>

CallResolver ==
    /\ pc = "call"
    /\ LET res == get_latest_version(RESOURCES[ri].url, net_in)
       IN  IF res.exc = "none"
           THEN lv' = res.value /\ pc' = "resolved" /\ raised' = raised
           ELSE lv' = lv /\ pc' = "raised" /\ raised' = res.exc
    /\ UNCHANGED <<script, platform, search_standard_dirs, fs, ri, pi, paths,
                   extra_paths, resource_results, covered_dirs, invoked,
                   discovered, lines_out, path_dirs, net_in, report,
                   locate_status>>

NextResolver == CallResolver

SpecResolver == InitResolver /\ [][NextResolver]_vars

-----------------------------------------------------------------------------
(* Vocabulary of the properties *)

HasReturned == pc \in {"returned", "done"}

Names == [i \in 1..Len(Configured) |-> Configured[i].name]

PathsOf(r) == resource_results[r].val.paths

\* s without its repeated elements, first occurrences kept
RECURSIVE Dedup(_)
Dedup(s) ==
    IF s = <<>> THEN <<>>
    ELSE LET init == Dedup(SubSeq(s, 1, Len(s) - 1))
         IN  IF s[Len(s)] \in Range(init) THEN init ELSE Append(init, s[Len(s)])

\* every path some resource's mapping holds
AllPaths == UNION {Range(Keys(PathsOf(r))) : r \in 1..Len(resource_results)}

\* a path's segments, cut at either separator
Segments(p) == SplitAcc(p, {BSLASH, SLASH}, <<>>)

IsPrefix(s, t) == Len(s) <= Len(t) /\ SubSeq(t, 1, Len(s)) = s

\* the prefix strings of p that end where a segment ends
PrefixStrings(p) ==
    {SubSeq(p, 1, n) : n \in {m \in 1..Len(p) : m = Len(p) \/ p[m + 1] \in {BSLASH, SLASH}}}

\* the lines of the report between the header of resource name and the blank
\* line that closes its section
SectionOf(name) ==
    LET h == CHOOSE i \in 1..Len(report) :
                report[i].kind = "resource" /\ report[i].resource = name
        e == CHOOSE i \in (h + 1)..Len(report) :
                report[i].kind = "" /\ \A k \in (h + 1)..(i - 1) : report[k].kind # ""
    IN  SubSeq(report, h, e - 1)

\* the chains of keys from the root to a node of a tree, and to a leaf
RECURSIVE NodeChains(_)
NodeChains(tree) ==
    UNION {{<<tree[i].key>>} \cup {<<tree[i].key>> \o c : c \in NodeChains(tree[i].val)}
           : i \in 1..Len(tree)}

RECURSIVE LeafChains(_)
LeafChains(tree) ==
    UNION {IF tree[i].val = <<>> THEN {<<tree[i].key>>}
           ELSE {<<tree[i].key>> \o c : c \in LeafChains(tree[i].val)}
           : i \in 1..Len(tree)}

Spelled(chains) == {Join(c, BSLASH) : c \in chains}

\* the paths of resource r recorded with InPath false
OffPath(r) == {PathsOf(r)[j].key : j \in {k \in 1..Len(PathsOf(r)) : ~PathsOf(r)[k].val.InPath}}

\* the lines print_hierarchy would give with each node's count looked up
\* under the node's own root-to-node prefix
RECURSIVE NodeLines(_, _, _, _)
NodeLines(items, prefix, path_counts, indent) ==
    IF items = <<>> THEN <<>>
    ELSE LET here == Append(prefix, items[1].key)
         IN  <<HierLine(indent, items[1].key, CountOf(path_counts, Join(here, BSLASH)))>>
             \o NodeLines(SortedItems(items[1].val), here, path_counts, indent + IndentStep)
             \o NodeLines(Tail(items), prefix, path_counts, indent)

-----------------------------------------------------------------------------
(* Properties *)

\* C1: get_resources runs to completion whatever the sub-steps return: no
\* exception escapes, and the results it returns hold exactly one entry per
\* configured resource, with every path the locator and the glob gave.
C1_EveryResourceProcessed ==
    /\ pc # "raised"
    /\ HasReturned =>
         /\ Keys(resource_results) = Names
         /\ \A r \in 1..Len(resource_results) :
              Range(discovered[r].paths) \cup Range(discovered[r].extra_paths)
                = Range(Keys(PathsOf(r)))

\* C2: get_latest_version never raises: every call returns a string, a
\* non-200 answer gives the failed-to-fetch string and a URL of no known
\* publisher that answers 200 gives the not-found string.
C2_ResolverReturnsString ==
    pc \in {"resolved", "raised"} =>
        /\ pc = "resolved"
        /\ IsStr(lv)
        /\ net_in.primary = "non200" =>
             lv.val = <<"Failed to fetch version from ">> \o RESOURCES[ri].url
        /\ ( /\ net_in.primary = "200"
             /\ \A needle \in {"nodejs", "python", "npmjs"} :
                    ~Contains(RESOURCES[ri].url, needle) )
             => lv.val = <<"Latest version info not found">>

\* C3: a recorded path that is not executable has Version None and its
\* version command was never run; a recorded path that is executable has a
\* string for its Version.
C3_VersionOnlyIfExecutable ==
    \A r \in 1..Len(resource_results) :
      \A j \in 1..Len(PathsOf(r)) :
        LET e == PathsOf(r)[j]
        IN  /\ e.val.Executable = FALSE =>
                 e.val.Version.type = "NoneType" /\ e.key \notin invoked
            /\ e.val.Executable = TRUE => IsStr(e.val.Version)

\* a returned result with a non-executable path and an executable one whose
\* version command failed
C3_Witness ==
    /\ pc = "returned"
    /\ \E r \in 1..Len(resource_results) : \E j \in 1..Len(PathsOf(r)) :
         PathsOf(r)[j].val.Executable = FALSE
    /\ \E r \in 1..Len(resource_results) : \E j \in 1..Len(PathsOf(r)) :
         /\ PathsOf(r)[j].val.Executable = TRUE
         /\ PathsOf(r)[j].val.Version = Str(<<"Error: ", "e">>)

\* C4: the count build_path_counts keeps for a prefix is the number of
\* distinct discovered paths, over all resources, whose segments start with
\* that prefix (no entry when there is none).
C4_CountIsDistinctPathsUnderPrefix ==
    HasReturned =>
      LET path_counts == build_path_counts(resource_results)
      IN  \A k \in DOMAIN path_counts \cup UNION {PrefixStrings(p) : p \in AllPaths} :
            CountOf(path_counts, k)
              = Cardinality({p \in AllPaths : IsPrefix(Segments(k), Segments(p))})

\* C5 as first stated: the tree of a resource has a root-to-leaf chain
\* spelling p exactly when p is a path of the resource recorded with InPath
\* false.
C5_LeafChainIffOffPath ==
    (pc = "done" /\ script = "main") =>
      \A r \in 1..Len(resource_results) :
        Spelled(LeafChains(HierarchyOf(resource_results[r].val))) = OffPath(r)

\* C5 amended: in the tree of a resource, the root-to-node chains spell
\* exactly the segment prefixes of the resource's InPath-false paths (so
\* every such path has its chain and no InPath-true path adds a node), and
\* the root-to-leaf chains spell exactly the InPath-false paths that are not
\* a proper segment prefix of another one.
C5_ChainsAreOffPathPrefixes ==
    (pc = "done" /\ script = "main") =>
      \A r \in 1..Len(resource_results) :
        LET tree == HierarchyOf(resource_results[r].val)
            parts == {Split(p, BSLASH) : p \in OffPath(r)}
        IN  /\ NodeChains(tree) = UNION {{SubSeq(q, 1, n) : n \in 1..Len(q)} : q \in parts}
            /\ LeafChains(tree)
                 = {q \in parts : \A q2 \in parts : IsPrefix(q, q2) => q2 = q}


\* a report made from a resource with two InPath-false paths, one a segment
\* prefix of the other
C5_Witness ==
    /\ pc = "done"
    /\ script = "main"
    /\ \E r \in 1..Len(resource_results) :
         /\ \E p \in OffPath(r), q \in OffPath(r) :
              p # q /\ IsPrefix(Split(p, BSLASH), Split(q, BSLASH))
         /\ Spelled(LeafChains(HierarchyOf(resource_results[r].val))) # OffPath(r)

\* the PATH directories the report lists as uncovered
UncoveredReported ==
    LET ls == SelectSeq(report, LAMBDA l : l.kind = "uncovered")
    IN  [i \in 1..Len(ls) |-> ls[i].dir]

\* the directories that hold a path found by the standard-directory search
CoveredSet ==
    {dirname(platform, p) :
        p \in UNION {Range(discovered[r].extra_paths) : r \in 1..Len(discovered)}}

\* C6: the uncovered list is PATH's non-empty entries less the directories
\* that contain a path found by the standard-directory search.
C6_UncoveredIsPathMinusCovered ==
    pc = "done" =>
        UncoveredReported = SelectSeq(path_dirs, LAMBDA d : d # <<>> /\ d \notin CoveredSet)

\* C7: the report has a Path line for a recorded path, followed by its
\* Executable, Version and In-Path lines, exactly when the path's Executable
\* flag is true.
C7_PathBlockIffExecutable ==
    pc = "done" =>
      \A r \in 1..Len(resource_results) :
        LET sec == SectionOf(resource_results[r].key)
        IN  \A j \in 1..Len(PathsOf(r)) :
              LET e == PathsOf(r)[j]
              IN  e.val.Executable
                    <=> \E i \in 1..(Len(sec) - 3) :
                            /\ sec[i].kind = "Path" /\ sec[i].path = e.key
                            /\ SubSeq(sec, i, i + 3) = PathBlock(e.key, e.val)

\* the same for the report of main.py alone
C7_MainPathBlockIffExecutable == script = "main" => C7_PathBlockIffExecutable

\* C8: a locate command that fails gives an empty list of paths; a resource
\* whose locator gave nothing, with the standard-directory search off, has
\* an empty mapping; and the header of a resource says 'No paths found'
\* exactly when its mapping is empty.
C8_NoPathsFound ==
    /\ locate_status = "CalledProcessError" => (pc = "glob" /\ paths = <<>>)
    /\ \A r \in 1..Len(discovered) :
         (HasReturned /\ ~search_standard_dirs /\ discovered[r].paths = <<>>)
            => PathsOf(r) = <<>>
    /\ pc = "done" =>
         \A r \in 1..Len(resource_results) :
            (SectionOf(resource_results[r].key)[1].text = "No paths found")
               <=> PathsOf(r) = <<>>

\* a report, standard-directory search off, with one resource the locator
\* found nothing for and one it found a path for
C8_Witness ==
    /\ pc = "done"
    /\ ~search_standard_dirs
    /\ \E r \in 1..Len(resource_results) :
         /\ discovered[r].paths = <<>>
         /\ SectionOf(resource_results[r].key)[1].text = "No paths found"
    /\ \E r \in 1..Len(resource_results) :
         /\ PathsOf(r) # <<>>
         /\ SectionOf(resource_results[r].key)[1].text = ""

\* C9: the keys of a mapping are unique and in discovery order, and a path's
\* InPath flag is true exactly when the PATH search gave the path.
C9_InPathIffLocated ==
    HasReturned =>
      \A r \in 1..Len(resource_results) :
        /\ Keys(PathsOf(r)) = Dedup(discovered[r].paths \o discovered[r].extra_paths)
        /\ \A j \in 1..Len(PathsOf(r)) :
             PathsOf(r)[j].val.InPath <=> PathsOf(r)[j].key \in Range(discovered[r].paths)

\* C10: the hierarchy lines of a resource are one per node, depth first in
\* sorted key order, indented by depth, each with the path_counts value of
\* the node's root-to-node prefix.
C10_CountOfNodePrefix ==
    (pc = "done" /\ script = "main") =>
      \A r \in 1..Len(resource_results) :
        SelectSeq(SectionOf(resource_results[r].key), LAMBDA l : l.kind = "hierarchy")
          = NodeLines(SortedItems(HierarchyOf(resource_results[r].val)), <<>>,
                      build_path_counts(resource_results), IndentStep)

====
